---- MODULE Spec2Model ----
(***************************************************************************)
(* Model of cmd/drive/main.go: the command handlers of the drive CLI       *)
(* (init, pull, push, diff, pub), the context path resolver                *)
(* (getContextPath), context discovery (discoverContext, initContext),     *)
(* the push mode split and source list, and exitWithError.                 *)
(*                                                                         *)
(* A string is a sequence of one-character strings, so that "/" + a,       *)
(* filepath.Clean, filepath.Rel and filepath.Abs are computed and not      *)
(* assumed.  One behaviour of the model is one process run.                *)
(***************************************************************************)
EXTENDS Integers, Sequences, FiniteSets, TLC

VARIABLES
    cmd,            \* the command selected by command.ParseAndRun
    args,           \* the positional arguments handed to Run
    flags,          \* the parsed flags of the command
    cwd,            \* the process's working directory
    roots,          \* the directories that hold a persisted context
    pc,             \* position of the run
    mode,           \* branch taken at main.go:97 ("none" before the split)
    contextArgs,    \* pushCmd.Run: contextArgs
    rest,           \* pushCmd.Run: rest
    sources,        \* pushCmd.Run: sources
    contextPath,    \* result of getContextPath
    context,        \* the package-level context variable
    relPath,        \* discoverContext's relPath / Run's path
    contextAbsPath, \* pushCmd.Run: contextAbsPath
    mountPoints,    \* pushCmd.Run: mountPoints
    auxSrcs,        \* pushCmd.Run: auxSrcs
    mpInput,        \* the arguments config.MountPoints was called with
    options,        \* the drive.Options handed to drive.New
    steps,          \* the calls made so far, in order
    errs,           \* the non-nil errors returned so far, in order, each with its call
    printed,        \* what exitWithError printed
    exitStatus      \* -1 while running, then the process's exit status

vars == <<cmd, args, flags, cwd, roots, pc, mode, contextArgs, rest, sources,
          contextPath, context, relPath, contextAbsPath, mountPoints, auxSrcs,
          mpInput, options, steps, errs, printed, exitStatus>>

----------------------------------------------------------------------------
(* Bounds and inputs *)

MaxArgs == 2

E == <<>>
S_a == <<"a">>
S_r == <<"/", "r">>
S_ra == <<"/", "r", "/", "a">>
S_x == <<"/", "x">>

ArgStrings == {E, S_a, S_r, S_ra, S_x}
ArgLists == UNION {[1..n -> ArgStrings] : n \in 0..MaxArgs}
Cwds == {S_ra, S_x}
FsPaths == {S_r, S_ra, S_x}
Commands == {"init", "pull", "push", "diff", "pub"}

NoErr == "nil"
NoContext == [valid |-> FALSE, AbsPath |-> E]
NoFlags == [hidden |-> FALSE, isNoPrompt |-> FALSE, isRecursive |-> TRUE,
            mountedPush |-> FALSE]

FlagsOf(c) ==
    IF c = "push"
    THEN [hidden : BOOLEAN, isNoPrompt : BOOLEAN, isRecursive : BOOLEAN,
          mountedPush : BOOLEAN]
    ELSE IF c = "pull"
    THEN [hidden : {FALSE}, isNoPrompt : BOOLEAN, isRecursive : BOOLEAN,
          mountedPush : {FALSE}]
    ELSE {NoFlags}

----------------------------------------------------------------------------
(* path/filepath on Unix, over sequences of characters *)

RECURSIVE Comps(_, _, _)
Comps(p, i, cur) ==
    IF i > Len(p)
    THEN IF cur = E THEN <<>> ELSE <<cur>>
    ELSE IF p[i] = "/"
         THEN (IF cur = E THEN <<>> ELSE <<cur>>) \o Comps(p, i + 1, E)
         ELSE Comps(p, i + 1, Append(cur, p[i]))

DotDot == <<".", ".">>

RECURSIVE ResolveDots(_, _, _, _)
ResolveDots(cs, i, out, rooted) ==
    IF i > Len(cs) THEN out
    ELSE IF cs[i] = <<".">> THEN ResolveDots(cs, i + 1, out, rooted)
    ELSE IF cs[i] = DotDot
         THEN IF Len(out) > 0 /\ out[Len(out)] # DotDot
              THEN ResolveDots(cs, i + 1, SubSeq(out, 1, Len(out) - 1), rooted)
              ELSE IF rooted
                   THEN ResolveDots(cs, i + 1, out, rooted)
                   ELSE ResolveDots(cs, i + 1, Append(out, DotDot), rooted)
         ELSE ResolveDots(cs, i + 1, Append(out, cs[i]), rooted)

RECURSIVE JoinComps(_)
JoinComps(cs) ==
    IF Len(cs) = 0 THEN E
    ELSE IF Len(cs) = 1 THEN cs[1]
    ELSE cs[1] \o <<"/">> \o JoinComps(Tail(cs))

IsAbs(p) == Len(p) > 0 /\ p[1] = "/"

Clean(p) ==
    IF p = E THEN <<".">>
    ELSE LET rooted == IsAbs(p)
             body == JoinComps(ResolveDots(Comps(p, 1, E), 1, <<>>, rooted))
         IN IF rooted THEN <<"/">> \o body
            ELSE IF body = E THEN <<".">> ELSE body

RECURSIVE CommonLen(_, _, _)
CommonLen(bc, tc, k) ==
    IF k < Len(bc) /\ k < Len(tc) /\ bc[k + 1] = tc[k + 1]
    THEN CommonLen(bc, tc, k + 1)
    ELSE k

Rel(basepath, targpath) ==
    LET base0 == Clean(basepath)
        targ == Clean(targpath)
        base == IF base0 = <<".">> THEN E ELSE base0
        bc == Comps(base, 1, E)
        tc == Comps(targ, 1, E)
        k == CommonLen(bc, tc, 0)
        up == [i \in 1..(Len(bc) - k) |-> DotDot]
        down == SubSeq(tc, k + 1, Len(tc))
    IN IF targ = base0 THEN [path |-> <<".">>, err |-> NoErr]
       ELSE IF IsAbs(base) # IsAbs(targ) THEN [path |-> E, err |-> "RelErr"]
       ELSE IF k < Len(bc) /\ bc[k + 1] = DotDot
            THEN [path |-> E, err |-> "RelErr"]
       ELSE [path |-> JoinComps(up \o down), err |-> NoErr]

JoinPath(a, b) ==
    IF a = E /\ b = E THEN E
    ELSE IF b = E THEN Clean(a)
    ELSE IF a = E THEN Clean(b)
    ELSE Clean(a \o <<"/">> \o b)

\* os.Getwd: the working directory, or "" with an error
GetwdOutcomes == {[path |-> cwd, err |-> NoErr], [path |-> E, err |-> "GetwdErr"]}

Abs(p, wd) ==
    IF IsAbs(p) THEN [path |-> Clean(p), err |-> NoErr]
    ELSE IF wd.err # NoErr THEN [path |-> E, err |-> wd.err]
    ELSE [path |-> JoinPath(wd.path, p), err |-> NoErr]

----------------------------------------------------------------------------
(* The external packages config and drive, at their interface *)

\* config.Discover: walk upward from the path to the nearest persisted context
Discover(p) ==
    LET abs == IF IsAbs(p) THEN Clean(p) ELSE JoinPath(cwd, p)
        cs == Comps(abs, 1, E)
        at(k) == <<"/">> \o JoinComps(SubSeq(cs, 1, k))
        found == {k \in 0..Len(cs) : at(k) \in roots}
    IN IF found = {}
       THEN [ctx |-> NoContext, err |-> "ErrNoContext"]
       ELSE LET k == CHOOSE x \in found : \A y \in found : y <= x
            IN [ctx |-> [valid |-> TRUE, AbsPath |-> at(k)], err |-> NoErr]

\* config.Initialize: a fresh context at the path; fails when one exists
\* there already or when the handshake fails
Initialize(p, handshakeOk) ==
    LET abs == IF IsAbs(p) THEN Clean(p) ELSE JoinPath(cwd, p)
    IN IF abs \in roots \/ ~handshakeOk
       THEN [ctx |-> NoContext, err |-> "InitErr"]
       ELSE [ctx |-> [valid |-> TRUE, AbsPath |-> abs], err |-> NoErr]

\* a name that is a path of the file system
ValidName(n) ==
    /\ n # E
    /\ (IF IsAbs(n) THEN Clean(n) ELSE JoinPath(cwd, n)) \in FsPaths

\* config.MountPoints returns (mounts, sources) and no error: the names it
\* knows become mounts; a name it does not know is kept or dropped; mounts
\* registered earlier may surface as further sources
MountPointsResults(path, absPath, names, hidden) ==
    {[mounts |-> SelectSeq(names, ValidName),
      aux |-> (IF keep THEN names ELSE SelectSeq(names, ValidName)) \o extra] :
        keep \in BOOLEAN, extra \in {<<>>, <<S_x>>}}

\* the error returned by Init, Pull, Push, Diff or Publish
EngineOutcomes == {NoErr, "EngineErr"}

----------------------------------------------------------------------------
(* cmd/drive/main.go *)

MkOptions(path, hidden, noPrompt, recursive, mounts, srcs) ==
    [built |-> TRUE, isNil |-> FALSE, Path |-> path, Hidden |-> hidden,
     IsNoPrompt |-> noPrompt, IsRecursive |-> recursive, Mounts |-> mounts,
     Sources |-> srcs]

NoOptions ==
    [built |-> FALSE, isNil |-> TRUE, Path |-> E, Hidden |-> FALSE,
     IsNoPrompt |-> FALSE, IsRecursive |-> FALSE, Mounts |-> <<>>,
     Sources |-> <<>>]

NilOptions == [NoOptions EXCEPT !.built = TRUE]

\* variant: the error is printed but the process does not exit
exitWithErrorNever(err) == FALSE

\* exitWithError: TRUE when the process prints err and exits with status 1
exitWithError(err) == err # NoErr

\* getContextPath, given what os.Getwd returns when it is called
FirstOrEmpty(a) == IF Len(a) > 0 THEN a[1] ELSE E

NeedsGetwd(a) == FirstOrEmpty(a) = E

\* variant: the last argument is taken instead of the first
getContextPathLast(a, wd) ==
    IF Len(a) > 0 /\ a[Len(a)] # E THEN a[Len(a)] ELSE wd.path

getContextPath(a, wd) == IF FirstOrEmpty(a) = E THEN wd.path ELSE FirstOrEmpty(a)

\* discoverContext: the argument made relative to the context root
\* variant: the last argument is made relative instead of the first
RelTargetLast(a) == a[Len(a)]

RelTarget(a) == a[1]

\* pushCmd.Run, the mode split
\* variant: the guard tests the argument count only
IsMountedModeAnyFlag(mountedPush, argc) == argc >= 1

IsMountedMode(mountedPush, argc) == mountedPush /\ argc >= 1

\* variant: args[1:] instead of args[:argc-1]
MountedRestTail(a) == Tail(a)

MountedRest(a) == SubSeq(a, 1, Len(a) - 1)

MountedContextArgs(a) == SubSeq(a, Len(a), Len(a))

\* variant: the arguments are copied without the "/" prefix
PlainSourcesNoPrefix(a) == a

PlainSources(a) == [i \in 1..Len(a) |-> <<"/">> \o a[i]]

\* variant: the auxiliary sources are put in front
AppendSourcesFront(srcs, aux) == aux \o srcs

AppendSources(srcs, aux) == srcs \o aux

PullOptions(path, f) ==
    MkOptions(path, FALSE, f.isNoPrompt, f.isRecursive, <<>>, <<>>)

\* variant: Hidden is filled from the mounted-push flag
PushOptionsWrongFlag(path, f, mounts, srcs) ==
    MkOptions(path, f.mountedPush, f.isNoPrompt, f.isRecursive, mounts, srcs)

PushOptions(path, f, mounts, srcs) ==
    MkOptions(path, f.hidden, f.isNoPrompt, f.isRecursive, mounts, srcs)

PathOptions(path) == MkOptions(path, FALSE, FALSE, FALSE, <<>>, <<>>)

Init ==
    /\ cmd \in Commands
    /\ args \in ArgLists
    /\ flags \in FlagsOf(cmd)
    /\ cwd \in Cwds
    /\ roots \in {{}, {S_r}}
    /\ pc = "start"
    /\ mode = "none"
    /\ contextArgs = <<>>
    /\ rest = <<>>
    /\ sources = <<>>
    /\ contextPath = E
    /\ context = NoContext
    /\ relPath = E
    /\ contextAbsPath = E
    /\ mountPoints = <<>>
    /\ auxSrcs = <<>>
    /\ mpInput = <<>>
    /\ options = NoOptions
    /\ steps = <<>>
    /\ errs = <<>>
    /\ printed = NoErr
    /\ exitStatus = -1

\* an entry of errs: the call that returned a non-nil error, and the error
ErrOf(step, err) == IF err # NoErr THEN <<[step |-> step, err |-> err]>> ELSE <<>>

\* the run goes on to position next, or exitWithError(err) ends it
Continue(err, next) ==
    IF exitWithError(err)
    THEN /\ printed' = err
         /\ exitStatus' = 1
         /\ pc' = "exited"
    ELSE /\ UNCHANGED <<printed, exitStatus>>
         /\ pc' = next

\* the handler returns and the process ends with status 0
Finish(err) ==
    IF exitWithError(err)
    THEN /\ printed' = err
         /\ exitStatus' = 1
         /\ pc' = "exited"
    ELSE /\ UNCHANGED printed
         /\ exitStatus' = 0
         /\ pc' = "returned"

discoverContext(a, next) ==
    \E wd \in GetwdOutcomes :
        /\ NeedsGetwd(a) \/ wd.err = NoErr
        /\ LET gw == IF NeedsGetwd(a) THEN <<"Getwd">> ELSE <<>>
               gwErr == IF NeedsGetwd(a) THEN ErrOf("Getwd", wd.err) ELSE <<>>
               cp == getContextPath(a, wd)
               d == Discover(cp)
               r == Rel(d.ctx.AbsPath, RelTarget(a))
           IN /\ contextPath' = cp
              /\ context' = d.ctx
              /\ IF exitWithError(d.err)
                 THEN /\ steps' = steps \o gw \o <<"Discover">>
                      /\ errs' = errs \o gwErr \o ErrOf("Discover", d.err)
                      /\ UNCHANGED relPath
                      /\ Continue(d.err, next)
                 ELSE IF Len(a) > 0
                 THEN /\ steps' = steps \o gw \o <<"Discover", "Rel">>
                      /\ errs' = errs \o gwErr \o ErrOf("Discover", d.err)
                                   \o ErrOf("Rel", r.err)
                      /\ relPath' = r.path
                      /\ Continue(r.err, next)
                 ELSE /\ steps' = steps \o gw \o <<"Discover">>
                      /\ errs' = errs \o gwErr \o ErrOf("Discover", d.err)
                      /\ relPath' = E
                      /\ Continue(d.err, next)

initContext ==
    /\ cmd = "init"
    /\ pc = "start"
    /\ \E wd \in GetwdOutcomes, handshakeOk \in BOOLEAN :
        /\ NeedsGetwd(args) \/ wd.err = NoErr
        /\ LET gw == IF NeedsGetwd(args) THEN <<"Getwd">> ELSE <<>>
               gwErr == IF NeedsGetwd(args) THEN ErrOf("Getwd", wd.err) ELSE <<>>
               cp == getContextPath(args, wd)
               d == Initialize(cp, handshakeOk)
           IN /\ contextPath' = cp
              /\ context' = d.ctx
              /\ roots' = IF d.err = NoErr THEN roots \cup {d.ctx.AbsPath} ELSE roots
              /\ steps' = steps \o gw \o <<"Initialize">>
              /\ errs' = errs \o gwErr \o ErrOf("Initialize", d.err)
              /\ Continue(d.err, "engine")
    /\ UNCHANGED <<cmd, args, flags, cwd, mode, contextArgs, rest, sources,
                   relPath, contextAbsPath, mountPoints, auxSrcs, mpInput, options>>

engine(name, opts) ==
    /\ pc = "engine"
    /\ options' = opts
    /\ \E e \in EngineOutcomes :
        /\ steps' = Append(steps, name)
        /\ errs' = errs \o ErrOf(name, e)
        /\ Finish(e)
    /\ UNCHANGED <<cmd, args, flags, cwd, roots, mode, contextArgs, rest, sources,
                   contextPath, context, relPath, contextAbsPath, mountPoints,
                   auxSrcs, mpInput>>

initCmdRun == cmd = "init" /\ engine("Init", NilOptions)

pullDiscover ==
    /\ cmd = "pull"
    /\ pc = "start"
    /\ discoverContext(args, "engine")
    /\ UNCHANGED <<cmd, args, flags, cwd, roots, mode, contextArgs, rest, sources,
                   contextAbsPath, mountPoints, auxSrcs, mpInput, options>>

pullCmdRun == cmd = "pull" /\ engine("Pull", PullOptions(relPath, flags))

diffDiscover ==
    /\ cmd = "diff"
    /\ pc = "start"
    /\ discoverContext(args, "engine")
    /\ UNCHANGED <<cmd, args, flags, cwd, roots, mode, contextArgs, rest, sources,
                   contextAbsPath, mountPoints, auxSrcs, mpInput, options>>

diffCmdRun == cmd = "diff" /\ engine("Diff", PathOptions(relPath))

publishDiscover ==
    /\ cmd = "pub"
    /\ pc = "start"
    /\ discoverContext(args, "engine")
    /\ UNCHANGED <<cmd, args, flags, cwd, roots, mode, contextArgs, rest, sources,
                   contextAbsPath, mountPoints, auxSrcs, mpInput, options>>

publishCmdRun == cmd = "pub" /\ engine("Publish", PathOptions(relPath))

pushSplit ==
    /\ cmd = "push"
    /\ pc = "start"
    /\ IF IsMountedMode(flags.mountedPush, Len(args))
       THEN /\ mode' = "mounted"
            /\ rest' = MountedRest(args)
            /\ contextArgs' = MountedContextArgs(args)
            /\ sources' = <<>>
       ELSE /\ mode' = "plain"
            /\ rest' = <<>>
            /\ contextArgs' = args
            /\ sources' = PlainSources(args)
    /\ pc' = "discover"
    /\ UNCHANGED <<cmd, args, flags, cwd, roots, contextPath, context, relPath,
                   contextAbsPath, mountPoints, auxSrcs, mpInput, options, steps,
                   errs, printed, exitStatus>>

pushDiscover ==
    /\ cmd = "push"
    /\ pc = "discover"
    /\ discoverContext(contextArgs, "abs")
    /\ UNCHANGED <<cmd, args, flags, cwd, roots, mode, contextArgs, rest, sources,
                   contextAbsPath, mountPoints, auxSrcs, mpInput, options>>

pushAbs ==
    /\ cmd = "push"
    /\ pc = "abs"
    /\ \E wd \in GetwdOutcomes :
        /\ ~IsAbs(relPath) \/ wd.err = NoErr
        /\ LET r == Abs(relPath, wd)
           IN /\ contextAbsPath' = r.path
              /\ steps' = steps \o (IF IsAbs(relPath) THEN <<>> ELSE <<"Getwd">>)
                                \o <<"Abs">>
              /\ errs' = errs \o ErrOf("Abs", r.err)
              /\ Continue(r.err, "mount")
    /\ UNCHANGED <<cmd, args, flags, cwd, roots, mode, contextArgs, rest, sources,
                   contextPath, context, relPath, mountPoints, auxSrcs, mpInput,
                   options>>

\* variant: a rest entry that is no valid name ends the run with an error
pushMountPointsChecked ==
    /\ cmd = "push"
    /\ pc = "mount"
    /\ \E res \in MountPointsResults(relPath, contextAbsPath, rest, flags.hidden) :
        /\ mountPoints' = res.mounts
        /\ auxSrcs' = res.aux
        /\ sources' = AppendSources(sources, res.aux)
    /\ mpInput' = Append(mpInput, <<relPath, contextAbsPath, rest, flags.hidden>>)
    /\ steps' = Append(steps, "MountPoints")
    /\ LET e == IF \E i \in 1..Len(rest) : ~ValidName(rest[i])
                THEN "MountErr" ELSE NoErr
       IN /\ errs' = errs \o ErrOf("MountPoints", e)
          /\ Continue(e, "engine")
    /\ UNCHANGED <<cmd, args, flags, cwd, roots, mode, contextArgs, rest,
                   contextPath, context, relPath, contextAbsPath, options>>

pushMountPoints ==
    /\ cmd = "push"
    /\ pc = "mount"
    /\ \E res \in MountPointsResults(relPath, contextAbsPath, rest, flags.hidden) :
        /\ mountPoints' = res.mounts
        /\ auxSrcs' = res.aux
        /\ sources' = AppendSources(sources, res.aux)
    /\ mpInput' = Append(mpInput, <<relPath, contextAbsPath, rest, flags.hidden>>)
    /\ steps' = Append(steps, "MountPoints")
    /\ pc' = "engine"
    /\ UNCHANGED <<cmd, args, flags, cwd, roots, mode, contextArgs, rest,
                   contextPath, context, relPath, contextAbsPath, options, errs,
                   printed, exitStatus>>

pushCmdRun ==
    cmd = "push" /\ engine("Push", PushOptions(relPath, flags, mountPoints, sources))

Next ==
    \/ initContext
    \/ initCmdRun
    \/ pullDiscover
    \/ pullCmdRun
    \/ diffDiscover
    \/ diffCmdRun
    \/ publishDiscover
    \/ publishCmdRun
    \/ pushSplit
    \/ pushDiscover
    \/ pushAbs
    \/ pushMountPoints
    \/ pushCmdRun

Spec == Init /\ [][Next]_vars

----------------------------------------------------------------------------
(* Properties *)

RECURSIVE Count(_, _)
Count(seq, x) ==
    IF seq = <<>> THEN 0
    ELSE (IF Head(seq) = x THEN 1 ELSE 0) + Count(Tail(seq), x)

Called(name) == \E i \in 1..Len(steps) : steps[i] = name

Failed(name) == \E i \in 1..Len(errs) : errs[i].step = name

EngineOps == {"Init", "Pull", "Push", "Diff", "Publish"}

EngineCalled == \E i \in 1..Len(steps) : steps[i] \in EngineOps

Terminated == exitStatus # -1

Prefixed(a) == [i \in 1..Len(a) |-> <<"/">> \o a[i]]

\* the arguments the command hands to getContextPath: contextArgs for push
\* (set by the split), args for the others
CtxArgs == IF cmd = "push" THEN contextArgs ELSE args

Resolved == Called("Discover") \/ Called("Initialize")

\* what os.Getwd returned to getContextPath: the working directory, or ""
\* when the call failed (its error is the first entry of errs)
GetwdResult == IF Len(errs) > 0 /\ errs[1].step = "Getwd" THEN E ELSE cwd

\* the calls made, os.Getwd left out
StepsButGetwd == SelectSeq(steps, LAMBDA x : x # "Getwd")

\* the argument that is made relative to the context root: the last one of
\* a mounted push, the first one otherwise
RelArg ==
    IF cmd = "push" /\ flags.mountedPush THEN args[Len(args)] ELSE args[1]

\* C1: with the mounted-push flag false, the split gives sources =
\* ["/" + a : a in args] in order, contextArgs = args and rest = [], and
\* mount resolution is handed the empty list.
C1_PlainSplit ==
    (cmd = "push" /\ ~flags.mountedPush /\ mode # "none") =>
        /\ mode = "plain"
        /\ contextArgs = args
        /\ rest = <<>>
        /\ (~Called("MountPoints") => sources = Prefixed(args))
        /\ Len(sources) >= Len(args)
        /\ SubSeq(sources, 1, Len(args)) = Prefixed(args)
        /\ \A i \in 1..Len(mpInput) : mpInput[i][3] = <<>>

C1_Witness ==
    /\ cmd = "push"
    /\ ~flags.mountedPush
    /\ pc = "discover"
    /\ args = <<S_ra, S_a>>
    /\ sources = << <<"/", "/", "r", "/", "a">>, <<"/", "a">> >>

\* C2 as stated: with the flag true and args non-empty, the context path
\* used for discovery is the last element of args and rest is args without
\* its last element.
C2_Original ==
    (cmd = "push" /\ flags.mountedPush /\ Len(args) >= 1 /\ Called("Discover")) =>
        /\ contextPath = args[Len(args)]
        /\ rest = SubSeq(args, 1, Len(args) - 1)

\* C2 amended: the argument used as context path is the last element of
\* args and rest is args without it; the path handed to discovery is that
\* element unless it is the empty string, when it is what os.Getwd returned.
C2_MountedSplit ==
    (cmd = "push" /\ flags.mountedPush /\ Len(args) >= 1 /\ mode # "none") =>
        /\ mode = "mounted"
        /\ contextArgs = <<args[Len(args)]>>
        /\ rest = SubSeq(args, 1, Len(args) - 1)
        /\ \A i \in 1..Len(mpInput) : mpInput[i][3] = SubSeq(args, 1, Len(args) - 1)
        /\ (Called("Discover") /\ args[Len(args)] # E) =>
               contextPath = args[Len(args)]
        /\ (Called("Discover") /\ args[Len(args)] = E) =>
               (steps[1] = "Getwd" /\ contextPath = GetwdResult)

C2_Witness ==
    /\ cmd = "push"
    /\ flags.mountedPush
    /\ args = <<S_x, S_ra>>
    /\ Called("Discover")
    /\ contextPath = S_ra
    /\ rest = <<S_x>>

\* C3: a push with no arguments does not depend on the mounted-push flag:
\* it takes the plain branch, resolves the context path with os.Getwd, has
\* an empty relative path, rest and source list, and hands mount resolution
\* and the engine values in which the flag does not occur.
C3_EmptyArgsFlagIgnored ==
    (cmd = "push" /\ args = <<>> /\ mode # "none") =>
        /\ mode = "plain"
        /\ contextArgs = <<>>
        /\ rest = <<>>
        /\ (~Called("MountPoints") => sources = <<>>)
        /\ relPath = E
        /\ Called("Discover") => (steps[1] = "Getwd" /\ contextPath = GetwdResult)
        /\ Called("MountPoints") =>
               (mpInput = << <<E, contextAbsPath, <<>>, flags.hidden>> >>
                /\ sources = auxSrcs)
        /\ options.built =>
               options = MkOptions(E, flags.hidden, flags.isNoPrompt,
                                   flags.isRecursive, mountPoints, auxSrcs)

C3_Witness ==
    /\ cmd = "push"
    /\ flags.mountedPush
    /\ args = <<>>
    /\ pc = "returned"
    /\ Called("Push")
    /\ contextPath = cwd

\* C4 as stated: at the engine exactly one of the "/"-prefixed sources and
\* the auxiliary sources is populated in Sources, never both and never
\* neither, the mode being fixed by flag and argument count.
C4_Original ==
    (cmd = "push" /\ options.built) =>
        /\ mode = (IF flags.mountedPush /\ Len(args) >= 1 THEN "mounted" ELSE "plain")
        /\ (Len(options.Sources) > Len(auxSrcs)) # (Len(auxSrcs) > 0)

\* C4 amended: the branch is fixed by (flag and at least one argument); the
\* "/"-prefixed arguments are in Sources exactly in the plain branch, one per
\* argument, and rest is non-empty only in the mounted branch, so the two
\* outputs of the split are never both non-empty; the auxiliary sources are
\* appended in both branches, so Sources may hold both kinds or be empty.
C4_ModeExclusive ==
    (cmd = "push" /\ options.built) =>
        /\ mode = (IF flags.mountedPush /\ Len(args) >= 1 THEN "mounted" ELSE "plain")
        /\ Len(options.Sources) - Len(auxSrcs) = (IF mode = "plain" THEN Len(args) ELSE 0)
        /\ Len(rest) = (IF mode = "mounted" THEN Len(args) - 1 ELSE 0)
        /\ ~(Len(rest) > 0 /\ Len(options.Sources) > Len(auxSrcs))

C4_Witness ==
    /\ cmd = "push"
    /\ options.built
    /\ mode = "plain"
    /\ Len(args) > 0
    /\ auxSrcs # <<>>
    /\ Len(options.Sources) > Len(auxSrcs)

\* C5: the process ends with status 1 and a printed error exactly when some
\* step returned a non-nil error; the printed error is the first one that
\* occurred, and no step runs after the failing one.
C5_Original ==
    Terminated =>
        /\ (exitStatus = 1 /\ printed # NoErr) <=> (errs # <<>>)
        /\ (exitStatus = 0) <=> (errs = <<>>)
        /\ errs # <<>> => (printed = errs[1].err /\ Len(errs) = 1
                           /\ steps[Len(steps)] = errs[1].step)

\* C6: the engine is invoked at most once, and Push only after Discover,
\* Rel (when there is a context argument), Abs and MountPoints have run in
\* that order without error; once one of these has failed the engine is
\* never invoked, for pull, diff and pub as well.
C6_EngineAfterResolution ==
    /\ Count(steps, "Push") <= 1
    /\ \A op \in EngineOps : Count(steps, op) <= 1
    /\ (cmd = "push" /\ Called("Push")) =>
           /\ StepsButGetwd =
                  (IF Len(contextArgs) > 0
                   THEN <<"Discover", "Rel", "Abs", "MountPoints", "Push">>
                   ELSE <<"Discover", "Abs", "MountPoints", "Push">>)
           /\ context.valid
    /\ (cmd \in {"pull", "diff", "pub"} /\ EngineCalled) =>
           /\ Len(StepsButGetwd) = (IF Len(args) > 0 THEN 3 ELSE 2)
           /\ StepsButGetwd[1] = "Discover"
           /\ Len(args) > 0 => StepsButGetwd[2] = "Rel"
           /\ context.valid
    /\ (Failed("Discover") \/ Failed("Rel") \/ Failed("Abs") \/ Failed("Initialize")) =>
           (~EngineCalled /\ pc = "exited")
    /\ (cmd # "init" /\ roots = {} /\ Resolved) => (~EngineCalled /\ pc = "exited")

C6_Witness ==
    /\ cmd = "push"
    /\ pc = "returned"
    /\ steps = <<"Discover", "Rel", "Getwd", "Abs", "MountPoints", "Push">>

\* C7 as stated: with args non-empty the context path is args[0] whatever
\* string it is, and the working directory is returned only for empty args.
C7_Original ==
    Resolved =>
        /\ Len(CtxArgs) > 0 => contextPath = CtxArgs[1]
        /\ (steps[1] = "Getwd" /\ contextPath = cwd) => Len(CtxArgs) = 0

\* C7 amended: the context path is args[0] when args is non-empty and
\* args[0] is not the empty string; when args is empty or args[0] is the
\* empty string it is what os.Getwd returned (the working directory, or ""
\* when Getwd failed), and only then is Getwd called.
C7_ContextPath ==
    Resolved =>
        /\ (Len(CtxArgs) > 0 /\ CtxArgs[1] # E) =>
               (contextPath = CtxArgs[1] /\ steps[1] # "Getwd")
        /\ (Len(CtxArgs) = 0 \/ (Len(CtxArgs) > 0 /\ CtxArgs[1] = E)) =>
               (steps[1] = "Getwd" /\ contextPath = GetwdResult)

C7_Witness ==
    /\ cmd = "pull"
    /\ args = <<E, S_r>>
    /\ Called("Discover")
    /\ contextPath = cwd

\* C8: Options.Path is Rel(context root, the context argument) when a
\* context argument was given (args[0], or the last argument of a mounted
\* push) and "" when none was; a path that cannot be made relative ends the
\* run with status 1 before the engine.
C8_RelativePath ==
    /\ (cmd # "init" /\ options.built /\ Len(args) = 0) => options.Path = E
    /\ (cmd # "init" /\ options.built /\ Len(args) > 0) =>
           /\ Rel(context.AbsPath, RelArg).err = NoErr
           /\ options.Path = Rel(context.AbsPath, RelArg).path
           /\ (context.AbsPath = S_r /\ RelArg = S_ra) => options.Path = <<"a">>
           /\ (context.AbsPath = S_r /\ RelArg = S_r) => options.Path = <<".">>
           /\ (context.AbsPath = S_r /\ RelArg = S_x) =>
                  options.Path = <<".", ".", "/", "x">>
    /\ (cmd # "init" /\ Called("Rel") /\ context.valid
            /\ Rel(context.AbsPath, RelArg).err # NoErr) =>
           /\ pc = "exited"
           /\ exitStatus = 1
           /\ printed = "RelErr"
           /\ ~EngineCalled
           /\ relPath = E

C8_Witness ==
    /\ cmd = "push"
    /\ flags.mountedPush
    /\ args = <<S_x, S_ra>>
    /\ options.built
    /\ options.Path = <<"a">>

C10_SourcesAppended ==
    /\ Count(steps, "MountPoints") <= 1
    /\ Len(mpInput) = Count(steps, "MountPoints")
    /\ (cmd = "push" /\ options.built) =>
           /\ Count(steps, "MountPoints") = 1
           /\ mpInput[1] = <<options.Path, contextAbsPath, rest, flags.hidden>>
           /\ mode = "plain" => (rest = <<>> /\ options.Sources = Prefixed(args) \o auxSrcs)
           /\ mode = "mounted" => options.Sources = auxSrcs
           /\ options.Mounts = mountPoints
           /\ auxSrcs \in {r.aux : r \in MountPointsResults(relPath, contextAbsPath,
                                                          rest, flags.hidden)}

C10_Witness ==
    /\ cmd = "push"
    /\ mode = "mounted"
    /\ args = <<S_a, S_ra>>
    /\ options.built
    /\ options.Sources = <<S_a, S_x>>

====
